---- MODULE Spec2Model ----
(***************************************************************************)
(* SRT -> ASS subtitle converter (src/app/api/convert/route.ts, class      *)
(* SRTtoASSConverter).                                                     *)
(*                                                                         *)
(* A JavaScript string is modelled as a sequence of characters.  An ASCII  *)
(* character is the one-character string holding it; a character outside  *)
(* ASCII is the string "Uxxxx" of its code point (U0102 is A-breve).       *)
(* Chars("abc") is the sequence <<"a", "b", "c">>.                         *)
(*                                                                         *)
(* route.ts carries stray backslashes (before quotes in the encodingFixes  *)
(* literal, and alone at line ends); they are read as noise, so the        *)
(* literal is read as the list of 'key': 'value' properties it shows.      *)
(***************************************************************************)
EXTENDS Integers, Sequences, FiniteSets, TLC

VARIABLES
    pc,                 \* position of the computation under way
    srtContent,         \* convertToASS: its argument
    subtitles,          \* convertToASS: const subtitles (SubtitleEntry[])
    validatedSubtitles, \* convertToASS: const validatedSubtitles
    assContent,         \* convertToASS: const assContent
    result,             \* convertToASS: the object returned; page: state result
    timeStr,            \* parseSRTTime: its argument
    text,               \* cleanAndFormatText / fixEncodingArtifacts: argument
    ret,                \* value returned by the function under way
    given,              \* the parts the argument was put together from
    file,               \* page: state file (File | null)
    isConverting,       \* page: state isConverting
    conversionProgress, \* page: state conversionProgress
    dragActive,         \* page: state dragActive
    calls,              \* page: the calls of convertFile made so far
    timers              \* page: the setTimeout callbacks not yet run

\* The variables of the upload page.
pageVars == <<file, isConverting, conversionProgress, dragActive, calls, timers>>

vars == <<pc, srtContent, subtitles, validatedSubtitles, assContent, result,
          timeStr, text, ret, given, file, isConverting, conversionProgress,
          dragActive, calls, timers>>

\* null
Null == [null |-> TRUE]

\* The page as useState initialises it, no call of convertFile made.
PageAtRest ==
    /\ file = Null /\ isConverting = FALSE /\ conversionProgress = 0
    /\ dragActive = FALSE /\ calls = <<>> /\ timers = <<>>

(***************************************************************************)
(* Strings                                                                 *)
(***************************************************************************)
Chars(str) == [i \in 1..Len(str) |-> SubSeq(str, i, i)]

\* What String.prototype.trim and the regular expression class \s take as
\* white space (the members of it the inputs of this model can hold).
WhiteSpace == {" ", "\t", "\n", "\r", "\f", "U000B", "U00A0", "UFEFF", "U2028", "U2029"}

\* What the regular expression "." does not match.
LineTerminator == {"\n", "\r", "U2028", "U2029"}

Digit == {"0", "1", "2", "3", "4", "5", "6", "7", "8", "9"}

DigitChars == Chars("0123456789")

DigitValue(c) == (CHOOSE k \in 1..10 : DigitChars[k] = c) - 1

UpperCase == Chars("ABCDEFGHIJKLMNOPQRSTUVWXYZ")

LowerCase == Chars("abcdefghijklmnopqrstuvwxyz")

\* Case folding of the regular expression flag i.
ToLower(c) ==
    IF \E k \in 1..26 : UpperCase[k] = c
    THEN LowerCase[CHOOSE k \in 1..26 : UpperCase[k] = c]
    ELSE c

RECURSIVE SkipWs(_, _)
SkipWs(s, i) == IF i <= Len(s) /\ s[i] \in WhiteSpace THEN SkipWs(s, i + 1) ELSE i

RECURSIVE SkipWsBack(_, _)
SkipWsBack(s, j) == IF j >= 1 /\ s[j] \in WhiteSpace THEN SkipWsBack(s, j - 1) ELSE j

\* String.prototype.trim
Trim(s) == SubSeq(s, SkipWs(s, 1), SkipWsBack(s, Len(s)))

\* pat occurs in s at index i
StartsWithAt(s, i, pat) ==
    /\ i >= 1
    /\ i + Len(pat) - 1 <= Len(s)
    /\ \A k \in 1..Len(pat) : s[i + k - 1] = pat[k]

\* pat occurs in s at index i, letter case ignored
StartsWithAtNoCase(s, i, pat) ==
    /\ i >= 1
    /\ i + Len(pat) - 1 <= Len(s)
    /\ \A k \in 1..Len(pat) : ToLower(s[i + k - 1]) = ToLower(pat[k])

\* The least index >= i at which pat occurs in s, 0 when there is none.
IndexOf(s, pat, i) ==
    LET found == {j \in i..(Len(s) - Len(pat) + 1) : StartsWithAt(s, j, pat)}
    IN  IF found = {} THEN 0 ELSE CHOOSE j \in found : \A k \in found : j <= k

\* s.replace(pat, rep) with a string pattern: the first occurrence only.
ReplaceFirst(s, pat, rep) ==
    LET i == IndexOf(s, pat, 1)
    IN  IF i = 0 THEN s
        ELSE SubSeq(s, 1, i - 1) \o rep \o SubSeq(s, i + Len(pat), Len(s))

\* s.replace(new RegExp(pat, "g"), rep) for a pattern without metacharacters:
\* every occurrence, left to right, none overlapping.
RECURSIVE ReplaceAll(_, _, _)
ReplaceAll(s, pat, rep) ==
    LET i == IndexOf(s, pat, 1)
    IN  IF i = 0 THEN s
        ELSE SubSeq(s, 1, i - 1) \o rep
                 \o ReplaceAll(SubSeq(s, i + Len(pat), Len(s)), pat, rep)

\* s.split(sep) with a non-empty string separator
RECURSIVE Split(_, _)
Split(s, sep) ==
    LET i == IndexOf(s, sep, 1)
    IN  IF i = 0 THEN <<s>>
        ELSE <<SubSeq(s, 1, i - 1)>> \o Split(SubSeq(s, i + Len(sep), Len(s)), sep)

\* parts.join(sep)
RECURSIVE Join(_, _)
Join(parts, sep) ==
    IF Len(parts) = 0 THEN <<>>
    ELSE IF Len(parts) = 1 THEN parts[1]
    ELSE parts[1] \o sep \o Join(Tail(parts), sep)

\* The number of leading digits of s from index i on.
RECURSIVE DigitRun(_, _)
DigitRun(s, i) == IF i <= Len(s) /\ s[i] \in Digit THEN 1 + DigitRun(s, i + 1) ELSE 0

\* The value of a string of decimal digits (0 for the empty string).
RECURSIVE DecimalValue(_)
DecimalValue(s) ==
    IF Len(s) = 0 THEN 0
    ELSE 10 * DecimalValue(SubSeq(s, 1, Len(s) - 1)) + DigitValue(s[Len(s)])

\* Number.prototype.toString of a natural number
RECURSIVE NatToString(_)
NatToString(n) ==
    IF n < 10 THEN <<DigitChars[n + 1]>>
    ELSE NatToString(n \div 10) \o <<DigitChars[(n % 10) + 1]>>

\* s.padStart(n, "0")
RECURSIVE PadStart(_, _)
PadStart(s, n) == IF Len(s) >= n THEN s ELSE PadStart(<<"0">> \o s, n)

\* s.padEnd(n, "0")
RECURSIVE PadEnd(_, _)
PadEnd(s, n) == IF Len(s) >= n THEN s ELSE PadEnd(s \o <<"0">>, n)

(***************************************************************************)
(* parseSRTTime                                                            *)
(***************************************************************************)
\* /(\d{1,2}):(\d{2}):(\d{2})[.,](\d{1,3})/ from the colon after the hours
\* on: the length matched from index j, 0 when there is no match.  The last
\* group is greedy and nothing follows it, so it takes up to 3 digits.
TimeTailLen(s, j) ==
    IF /\ j + 7 <= Len(s)
       /\ s[j] = ":"
       /\ s[j + 1] \in Digit /\ s[j + 2] \in Digit
       /\ s[j + 3] = ":"
       /\ s[j + 4] \in Digit /\ s[j + 5] \in Digit
       /\ s[j + 6] \in {".", ","}
       /\ s[j + 7] \in Digit
    THEN 7 + (IF DigitRun(s, j + 7) > 3 THEN 3 ELSE DigitRun(s, j + 7))
    ELSE 0

\* The number of hour digits of a match of the pattern at index i, 0 when it
\* does not match there: \d{1,2} tries two digits, then one.
TimeHourLen(s, i) ==
    IF i + 1 <= Len(s) /\ s[i] \in Digit /\ s[i + 1] \in Digit
          /\ TimeTailLen(s, i + 2) > 0
    THEN 2
    ELSE IF i <= Len(s) /\ s[i] \in Digit /\ TimeTailLen(s, i + 1) > 0
    THEN 1
    ELSE 0

\* The length of the match of the pattern at index i, 0 when there is none.
TimeLenAt(s, i) ==
    IF TimeHourLen(s, i) = 0 THEN 0
    ELSE TimeHourLen(s, i) + TimeTailLen(s, i + TimeHourLen(s, i))

\* String.prototype.match with the unanchored pattern: the leftmost index
\* >= i where it matches, 0 when it matches nowhere.
TimeSearch(s, i) ==
    LET found == {j \in i..Len(s) : TimeLenAt(s, j) > 0}
    IN  IF found = {} THEN 0 ELSE CHOOSE j \in found : \A k \in found : j <= k

\* The groups match[1..4] of a match at index i.
TimeGroups(s, i) ==
    LET hl == TimeHourLen(s, i)
        n  == TimeLenAt(s, i)
    IN  [hours    |-> SubSeq(s, i, i + hl - 1),
         minutes  |-> SubSeq(s, i + hl + 1, i + hl + 2),
         seconds  |-> SubSeq(s, i + hl + 4, i + hl + 5),
         fraction |-> SubSeq(s, i + hl + 7, i + n - 1)]

\* The value of the catch block.
TimeSentinel == Chars("0:00:00.00")

\* `${hours}:${minutes padStart 2}:${seconds padStart 2}.${centiseconds padStart 2}`
FormatASSTime(hours, minutes, seconds, centiseconds) ==
    NatToString(hours) \o <<":">> \o PadStart(NatToString(minutes), 2) \o <<":">>
        \o PadStart(NatToString(seconds), 2) \o <<".">>
        \o PadStart(NatToString(centiseconds), 2)

\* A rounding conversion, in place of the truncating one.
CentisecondsRounded(milliseconds) == (milliseconds + 5) \div 10

\* Math.floor(milliseconds / 10)
Centiseconds(milliseconds) == milliseconds \div 10

parseSRTTime(str) ==
    LET trimmed == Trim(str)
        dotted  == ReplaceFirst(trimmed, <<",">>, <<".">>)
        at      == TimeSearch(dotted, 1)
    IN  IF at = 0 THEN TimeSentinel
        ELSE LET g            == TimeGroups(dotted, at)
                 hours        == DecimalValue(g.hours)
                 minutes      == DecimalValue(g.minutes)
                 seconds      == DecimalValue(g.seconds)
                 milliseconds == DecimalValue(SubSeq(PadEnd(g.fraction, 3), 1, 3))
                 centiseconds == Centiseconds(milliseconds)
             IN  IF minutes >= 60 \/ seconds >= 60 \/ milliseconds >= 1000
                 THEN TimeSentinel
                 ELSE FormatASSTime(hours, minutes, seconds, centiseconds)

(***************************************************************************)
(* Object literals                                                         *)
(***************************************************************************)
\* Object.entries of an object literal given as its properties in the order
\* written: a key that is written more than once keeps the place of its
\* first occurrence and holds the value of its last.
ObjectEntries(props) ==
    LET firsts == {i \in 1..Len(props) : \A j \in 1..(i - 1) : props[j][1] # props[i][1]}
        last(i) == CHOOSE j \in i..Len(props) :
                      /\ props[j][1] = props[i][1]
                      /\ \A k \in (j + 1)..Len(props) : props[k][1] # props[i][1]
    IN  [n \in 1..Cardinality(firsts) |->
            LET i == CHOOSE f \in firsts : Cardinality({j \in firsts : j <= f}) = n
            IN  <<props[i][1], props[last(i)][2]>>]

\* for (const [wrong, correct] of Object.entries(table))
\*     s = s.replace(new RegExp(wrong, "g"), correct)
\* for the entries lo..hi, in their order (the range is halved, and the
\* first half is evaluated before the second is entered, to keep the
\* evaluation shallow).  No key of the two tables holds a metacharacter of
\* regular expressions and no value holds a "$".
RECURSIVE ReplaceRange(_, _, _, _)
ReplaceRange(s, entries, lo, hi) ==
    IF lo > hi THEN s
    ELSE IF lo = hi THEN ReplaceAll(s, entries[lo][1], entries[lo][2])
    ELSE LET mid   == (lo + hi) \div 2
             first == ReplaceRange(s, entries, lo, mid)
         IN  IF Len(first) >= 0 THEN ReplaceRange(first, entries, mid + 1, hi) ELSE first

ReplaceEach(s, entries) == ReplaceRange(s, entries, 1, Len(entries))

(***************************************************************************)
(* fixEncodingArtifacts                                                    *)
(***************************************************************************)
\* The properties of the literal encodingFixes, in the order written.
encodingFixesLiteral ==
    << <<<<"U0102", "U00A1">>, <<"U00E1">>>>,
      <<<<"U0102", " ">>, <<"U00E0">>>>,
      <<<<"U00E1", "U00BA", "U00A3">>, <<"U1EA3">>>>,
      <<<<"U0102", "U00A3">>, <<"U00E3">>>>,
      <<<<"U00E1", "U00BA", "U00A1">>, <<"U1EA1">>>>,
      <<<<"U0102", "U00A2">>, <<"U00E2">>>>,
      <<<<"U00E1", "U00BA", "U00A5">>, <<"U1EA5">>>>,
      <<<<"U00E1", "U00BA", "U00A7">>, <<"U1EA7">>>>,
      <<<<"U00E1", "U00BA", "U00A9">>, <<"U1EA9">>>>,
      <<<<"U00E1", "U00BA", "U00AB">>, <<"U1EAB">>>>,
      <<<<"U00E1", "U00BA", "U00AD">>, <<"U1EAD">>>>,
      <<<<"U00C4">>, <<"U0111">>>>,
      <<<<"U00C4", "'">>, <<"U0111">>>>,
      <<<<"U0102", "U00A9">>, <<"U00E9">>>>,
      <<<<"U0102", "U00A8">>, <<"U00E8">>>>,
      <<<<"U00E1", "U00BA", "U00BB">>, <<"U1EBB">>>>,
      <<<<"U00E1", "U00BA", "U00BD">>, <<"U1EBD">>>>,
      <<<<"U00E1", "U00BA", "U00B9">>, <<"U1EB9">>>>,
      <<<<"U0102", "U00AA">>, <<"U00EA">>>>,
      <<<<"U00E1", "U00BA", "U00BF">>, <<"U1EBF">>>>,
      <<<<"U00E1", "U00BB">>, <<"U1EC1">>>>,
      <<<<"U00E1", "U00BB", "U0192">>, <<"U1EC3">>>>,
      <<<<"U00E1", "U00BB", "U2026">>, <<"U1EC5">>>>,
      <<<<"U00E1", "U00BB", "U2021">>, <<"U1EC7">>>>,
      <<<<"U0102", "U00AD">>, <<"U00ED">>>>,
      <<<<"U0102", "U00AC">>, <<"U00EC">>>>,
      <<<<"U00E1", "U00BB", "U2030">>, <<"U1EC9">>>>,
      <<<<"U00C4", "U00A9">>, <<"U0129">>>>,
      <<<<"U00E1", "U00BB", "U2039">>, <<"U1ECB">>>>,
      <<<<"U0102", "U00B3">>, <<"U00F3">>>>,
      <<<<"U0102", "U00B2">>, <<"U00F2">>>>,
      <<<<"U00E1", "U00BB">>, <<"U1ECF">>>>,
      <<<<"U0102", "U00B5">>, <<"U00F5">>>>,
      <<<<"U00E1", "U00BB">>, <<"U1ECD">>>>,
      <<<<"U0102", "U00B4">>, <<"U00F4">>>>,
      <<<<"U00E1", "U00BB", "'">>, <<"U1ED1">>>>,
      <<<<"U00E1", "U00BB", "\"">>, <<"U1ED3">>>>,
      <<<<"U00E1", "U00BB", "U2022">>, <<"U1ED5">>>>,
      <<<<"U00E1", "U00BB", "U2014">>, <<"U1ED7">>>>,
      <<<<"U00E1", "U00BB", "U2122">>, <<"U1ED9">>>>,
      <<<<"U00C6", "U00A1">>, <<"U01A1">>>>,
      <<<<"U00E1", "U00BB", "U203A">>, <<"U1EDB">>>>,
      <<<<"U00E1", "U00BB">>, <<"U1EDD">>>>,
      <<<<"U00E1", "U00BB", "U0178">>, <<"U1EDF">>>>,
      <<<<"U00E1", "U00BB", "U00A1">>, <<"U1EE1">>>>,
      <<<<"U00E1", "U00BB", "U00A3">>, <<"U1EE3">>>>,
      <<<<"U0102", "U00BA">>, <<"U00FA">>>>,
      <<<<"U0102", "U00B9">>, <<"U00F9">>>>,
      <<<<"U00E1", "U00BB", "U00A7">>, <<"U1EE7">>>>,
      <<<<"U00C5", "U00A9">>, <<"U0169">>>>,
      <<<<"U00E1", "U00BB", "U00A5">>, <<"U1EE5">>>>,
      <<<<"U00C6", "U00B0">>, <<"U01B0">>>>,
      <<<<"U00E1", "U00BB", "U00A9">>, <<"U1EE9">>>>,
      <<<<"U00E1", "U00BB", "U00AB">>, <<"U1EEB">>>>,
      <<<<"U00E1", "U00BB", "U00AD">>, <<"U1EED">>>>,
      <<<<"U00E1", "U00BB", "U00AF">>, <<"U1EEF">>>>,
      <<<<"U00E1", "U00BB", "U00B1">>, <<"U1EF1">>>>,
      <<<<"U0102", "U00BD">>, <<"U00FD">>>>,
      <<<<"U00E1", "U00BB", "U00B3">>, <<"U1EF3">>>>,
      <<<<"U00E1", "U00BB", "U00B7">>, <<"U1EF7">>>>,
      <<<<"U00E1", "U00BB", "U00B9">>, <<"U1EF9">>>>,
      <<<<"U00E1", "U00BB", "U00B5">>, <<"U1EF5">>>>,
      <<<<"U0102">>, <<"U00C1">>>>,
      <<<<"U0102", "U20AC">>, <<"U00C0">>>>,
      <<<<"U00E1", "U00BA", "U00A2">>, <<"U1EA2">>>>,
      <<<<"U0102", "U0192">>, <<"U00C3">>>>,
      <<<<"U00E1", "U00BA", " ">>, <<"U1EA0">>>>,
      <<<<"U0102", "U201A">>, <<"U00C2">>>>,
      <<<<"U00E1", "U00BA", "U00A4">>, <<"U1EA4">>>>,
      <<<<"U00E1", "U00BA", "U00A6">>, <<"U1EA6">>>>,
      <<<<"U00E1", "U00BA", "U00A8">>, <<"U1EA8">>>>,
      <<<<"U00E1", "U00BA", "U00AA">>, <<"U1EAA">>>>,
      <<<<"U00E1", "U00BA", "U00AC">>, <<"U1EAC">>>>,
      <<<<"U00C4", "U201A">>, <<"U0110">>>>,
      <<<<"U0102", "U2030">>, <<"U00C9">>>>,
      <<<<"U0102", "U02C6">>, <<"U00C8">>>>,
      <<<<"U00E1", "U00BA", "U00BA">>, <<"U1EBA">>>>,
      <<<<"U00E1", "U00BA", "U00BC">>, <<"U1EBC">>>>,
      <<<<"U00E1", "U00BA", "U00B8">>, <<"U1EB8">>>>,
      <<<<"U0102", "U0160">>, <<"U00CA">>>>,
      <<<<"U00E1", "U00BA", "U00BE">>, <<"U1EBE">>>>,
      <<<<"U00E1", "U00BB", "U20AC">>, <<"U1EC0">>>>,
      <<<<"U00E1", "U00BB", "U201A">>, <<"U1EC2">>>>,
      <<<<"U00E1", "U00BB", "U201E">>, <<"U1EC4">>>>,
      <<<<"U00E1", "U00BB", "U2020">>, <<"U1EC6">>>>,
      <<<<"U0102">>, <<"U00CD">>>>,
      <<<<"U0102", "U0152">>, <<"U00CC">>>>,
      <<<<"U00E1", "U00BB", "U02C6">>, <<"U1EC8">>>>,
      <<<<"U00C4", "U00A8">>, <<"U0128">>>>,
      <<<<"U00E1", "U00BB", "U0160">>, <<"U1ECA">>>>,
      <<<<"U0102", "\"">>, <<"U00D3">>>>,
      <<<<"U0102", "'">>, <<"U00D2">>>>,
      <<<<"U00E1", "U00BB", "U017D">>, <<"U1ECE">>>>,
      <<<<"U0102", "U2022">>, <<"U00D5">>>>,
      <<<<"U00E1", "U00BB", "U0152">>, <<"U1ECC">>>>,
      <<<<"U0102", "\"">>, <<"U00D4">>>>,
      <<<<"U00E1", "U00BB">>, <<"U1ED0">>>>,
      <<<<"U00E1", "U00BB", "'">>, <<"U1ED2">>>>,
      <<<<"U00E1", "U00BB", "\"">>, <<"U1ED4">>>>,
      <<<<"U00E1", "U00BB", "U2013">>, <<"U1ED6">>>>,
      <<<<"U00E1", "U00BB", "U02DC">>, <<"U1ED8">>>>,
      <<<<"U00C6", " ">>, <<"U01A0">>>>,
      <<<<"U00E1", "U00BB", "U0161">>, <<"U1EDA">>>>,
      <<<<"U00E1", "U00BB", "U0153">>, <<"U1EDC">>>>,
      <<<<"U00E1", "U00BB", "U017E">>, <<"U1EDE">>>>,
      <<<<"U00E1", "U00BB", " ">>, <<"U1EE0">>>>,
      <<<<"U00E1", "U00BB", "U00A2">>, <<"U1EE2">>>>,
      <<<<"U0102", "U0161">>, <<"U00DA">>>>,
      <<<<"U0102", "U2122">>, <<"U00D9">>>>,
      <<<<"U00E1", "U00BB", "U00A6">>, <<"U1EE6">>>>,
      <<<<"U00C5", "U00A8">>, <<"U0168">>>>,
      <<<<"U00E1", "U00BB", "U00A4">>, <<"U1EE4">>>>,
      <<<<"U00C6", "U00AF">>, <<"U01AF">>>>,
      <<<<"U00E1", "U00BB", "U00A8">>, <<"U1EE8">>>>,
      <<<<"U00E1", "U00BB", "U00AA">>, <<"U1EEA">>>>,
      <<<<"U00E1", "U00BB", "U00AC">>, <<"U1EEC">>>>,
      <<<<"U00E1", "U00BB", "U00AE">>, <<"U1EEE">>>>,
      <<<<"U00E1", "U00BB", "U00B0">>, <<"U1EF0">>>>,
      <<<<"U0102">>, <<"U00DD">>>>,
      <<<<"U00E1", "U00BB", "U00B2">>, <<"U1EF2">>>>,
      <<<<"U00E1", "U00BB", "U00B6">>, <<"U1EF6">>>>,
      <<<<"U00E1", "U00BB", "U00B8">>, <<"U1EF8">>>>,
      <<<<"U00E1", "U00BB", "U00B4">>, <<"U1EF4">>>>
>>

encodingFixes == ObjectEntries(encodingFixesLiteral)

fixEncodingArtifacts(str) == ReplaceEach(str, encodingFixes)

(***************************************************************************)
(* cleanAndFormatText                                                      *)
(***************************************************************************)
\* The properties of the literal htmlEntities, in the order written.
htmlEntitiesLiteral ==
    << <<<<"&", "a", "m", "p", ";">>, <<"&">>>>,
       <<<<"&", "l", "t", ";">>, <<"<">>>>,
       <<<<"&", "g", "t", ";">>, <<">">>>>,
       <<<<"&", "q", "u", "o", "t", ";">>, <<"\"">>>>,
       <<<<"&", "a", "p", "o", "s", ";">>, <<"'">>>>,
       <<<<"&", "#", "3", "9", ";">>, <<"'">>>>,
       <<<<"&", "n", "b", "s", "p", ";">>, <<" ">>>>,
       <<<<"&", "m", "d", "a", "s", "h", ";">>, <<"U2014">>>>,
       <<<<"&", "n", "d", "a", "s", "h", ";">>, <<"U2013">>>>,
       <<<<"&", "h", "e", "l", "l", "i", "p", ";">>, <<"U2026">>>>,
       <<<<"&", "#", "2", "2", "5", ";">>, <<"U00E1">>>>,
       <<<<"&", "#", "2", "2", "4", ";">>, <<"U00E0">>>>,
       <<<<"&", "#", "7", "8", "4", "3", ";">>, <<"U1EA3">>>>,
       <<<<"&", "#", "2", "2", "7", ";">>, <<"U00E3">>>>,
       <<<<"&", "#", "7", "8", "4", "1", ";">>, <<"U1EA1">>>>,
       <<<<"&", "#", "2", "2", "6", ";">>, <<"U00E2">>>>,
       <<<<"&", "#", "7", "8", "4", "5", ";">>, <<"U1EA5">>>>,
       <<<<"&", "#", "7", "8", "4", "7", ";">>, <<"U1EA7">>>>,
       <<<<"&", "#", "7", "8", "4", "9", ";">>, <<"U1EA9">>>>,
       <<<<"&", "#", "7", "8", "5", "1", ";">>, <<"U1EAB">>>>,
       <<<<"&", "#", "7", "8", "5", "3", ";">>, <<"U1EAD">>>>,
       <<<<"&", "#", "2", "7", "3", ";">>, <<"U0111">>>>,
       <<<<"&", "#", "2", "3", "3", ";">>, <<"U00E9">>>>,
       <<<<"&", "#", "2", "3", "2", ";">>, <<"U00E8">>>>,
       <<<<"&", "#", "7", "8", "6", "7", ";">>, <<"U1EBB">>>>,
       <<<<"&", "#", "7", "8", "6", "9", ";">>, <<"U1EBD">>>>,
       <<<<"&", "#", "7", "8", "6", "5", ";">>, <<"U1EB9">>>>,
       <<<<"&", "#", "2", "3", "4", ";">>, <<"U00EA">>>>,
       <<<<"&", "#", "7", "8", "7", "1", ";">>, <<"U1EBF">>>>,
       <<<<"&", "#", "7", "8", "7", "3", ";">>, <<"U1EC1">>>>,
       <<<<"&", "#", "7", "8", "7", "5", ";">>, <<"U1EC3">>>>,
       <<<<"&", "#", "7", "8", "7", "7", ";">>, <<"U1EC5">>>>,
       <<<<"&", "#", "7", "8", "7", "9", ";">>, <<"U1EC7">>>>,
       <<<<"&", "#", "2", "3", "7", ";">>, <<"U00ED">>>>,
       <<<<"&", "#", "2", "3", "6", ";">>, <<"U00EC">>>>,
       <<<<"&", "#", "7", "8", "8", "1", ";">>, <<"U1EC9">>>>,
       <<<<"&", "#", "2", "9", "7", ";">>, <<"U0129">>>>,
       <<<<"&", "#", "7", "8", "8", "3", ";">>, <<"U1ECB">>>>,
       <<<<"&", "#", "2", "4", "3", ";">>, <<"U00F3">>>>,
       <<<<"&", "#", "2", "4", "2", ";">>, <<"U00F2">>>>,
       <<<<"&", "#", "7", "8", "8", "7", ";">>, <<"U1ECF">>>>,
       <<<<"&", "#", "2", "4", "5", ";">>, <<"U00F5">>>>,
       <<<<"&", "#", "7", "8", "8", "5", ";">>, <<"U1ECD">>>>,
       <<<<"&", "#", "2", "4", "4", ";">>, <<"U00F4">>>>,
       <<<<"&", "#", "7", "8", "8", "9", ";">>, <<"U1ED1">>>>,
       <<<<"&", "#", "7", "8", "9", "1", ";">>, <<"U1ED3">>>>,
       <<<<"&", "#", "7", "8", "9", "3", ";">>, <<"U1ED5">>>>,
       <<<<"&", "#", "7", "8", "9", "5", ";">>, <<"U1ED7">>>>,
       <<<<"&", "#", "7", "8", "9", "7", ";">>, <<"U1ED9">>>>,
       <<<<"&", "#", "4", "1", "7", ";">>, <<"U01A1">>>>,
       <<<<"&", "#", "7", "8", "9", "9", ";">>, <<"U1EDB">>>>,
       <<<<"&", "#", "7", "9", "0", "1", ";">>, <<"U1EDD">>>>,
       <<<<"&", "#", "7", "9", "0", "3", ";">>, <<"U1EDF">>>>,
       <<<<"&", "#", "7", "9", "0", "5", ";">>, <<"U1EE1">>>>,
       <<<<"&", "#", "7", "9", "0", "7", ";">>, <<"U1EE3">>>>,
       <<<<"&", "#", "2", "5", "0", ";">>, <<"U00FA">>>>,
       <<<<"&", "#", "2", "4", "9", ";">>, <<"U00F9">>>>,
       <<<<"&", "#", "7", "9", "1", "1", ";">>, <<"U1EE7">>>>,
       <<<<"&", "#", "3", "6", "1", ";">>, <<"U0169">>>>,
       <<<<"&", "#", "7", "9", "0", "9", ";">>, <<"U1EE5">>>>,
       <<<<"&", "#", "4", "3", "2", ";">>, <<"U01B0">>>>,
       <<<<"&", "#", "7", "9", "1", "3", ";">>, <<"U1EE9">>>>,
       <<<<"&", "#", "7", "9", "1", "5", ";">>, <<"U1EEB">>>>,
       <<<<"&", "#", "7", "9", "1", "7", ";">>, <<"U1EED">>>>,
       <<<<"&", "#", "7", "9", "1", "9", ";">>, <<"U1EEF">>>>,
       <<<<"&", "#", "7", "9", "2", "1", ";">>, <<"U1EF1">>>>,
       <<<<"&", "#", "2", "5", "3", ";">>, <<"U00FD">>>>,
       <<<<"&", "#", "7", "9", "2", "3", ";">>, <<"U1EF3">>>>,
       <<<<"&", "#", "7", "9", "2", "7", ";">>, <<"U1EF7">>>>,
       <<<<"&", "#", "7", "9", "2", "9", ";">>, <<"U1EF9">>>>,
       <<<<"&", "#", "7", "9", "2", "5", ";">>, <<"U1EF5">>>> >>

htmlEntities == ObjectEntries(htmlEntitiesLiteral)

\* A raw line feed, in place of the break marker.
RawLineFeed == <<"\n">>

\* The ASS break marker: a backslash and an N.
BreakMarker == <<"\\", "N">>

\* The regular expressions of cleanAndFormatText, each a record.
ItalicTagRe == [kind |-> "italic", name |-> <<"i">>]

BreakTagRe == [kind |-> "br", name |-> <<"b", "r">>]

WhiteSpaceRunRe == [kind |-> "ws", name |-> <<>>]

TagRe(tagName) == [kind |-> "tag", name |-> tagName]

\* const htmlTags, in the order of the array
htmlTags ==
    << TagRe(Chars("b")), TagRe(Chars("u")), TagRe(Chars("s")), TagRe(Chars("em")),
       TagRe(Chars("strong")), TagRe(Chars("font")), TagRe(Chars("span")),
       TagRe(Chars("div")), TagRe(Chars("p")) >>

\* The length of white space in s from index i on.
RECURSIVE WsRun(_, _)
WsRun(s, i) == IF i <= Len(s) /\ s[i] \in WhiteSpace THEN 1 + WsRun(s, i + 1) ELSE 0

\* The length of the match of re at index i of s, 0 when there is none:
\*   italic  /<\/?i>/i          tag  /<\/?NAME[^>]*>/i
\*   br      /<br\s*\/?>/i      ws   /\s+/
MatchLen(re, s, i) ==
    IF re.kind = "ws" THEN WsRun(s, i)
    ELSE IF ~(i <= Len(s) /\ s[i] = "<") THEN 0
    ELSE IF re.kind = "italic" THEN
        IF StartsWithAtNoCase(s, i, Chars("<i>")) THEN 3
        ELSE IF StartsWithAtNoCase(s, i, Chars("</i>")) THEN 4
        ELSE 0
    ELSE IF re.kind = "br" THEN
        IF ~StartsWithAtNoCase(s, i + 1, re.name) THEN 0
        ELSE LET j == i + 3 + WsRun(s, i + 3)
                 k == IF j <= Len(s) /\ s[j] = "/" THEN j + 1 ELSE j
             IN  IF k <= Len(s) /\ s[k] = ">" THEN k - i + 1 ELSE 0
    ELSE
        LET n == IF i + 1 <= Len(s) /\ s[i + 1] = "/" THEN i + 2 ELSE i + 1
            g == IndexOf(s, <<">">>, n + Len(re.name))
        IN  IF StartsWithAtNoCase(s, n, re.name) /\ g > 0 THEN g - i + 1 ELSE 0

\* s.replace(re, rep) with the flag g, from index i on: the text up to the
\* next match is kept, the match is replaced, and the search goes on after it.
RECURSIVE RegexReplaceFrom(_, _, _, _)
RegexReplaceFrom(re, s, i, rep) ==
    LET found == {j \in i..Len(s) : MatchLen(re, s, j) > 0}
        at    == CHOOSE j \in found : \A k \in found : j <= k
    IN  IF found = {} THEN SubSeq(s, i, Len(s))
        ELSE SubSeq(s, i, at - 1) \o rep
                 \o RegexReplaceFrom(re, s, at + MatchLen(re, s, at), rep)

RegexReplace(re, s, rep) == RegexReplaceFrom(re, s, 1, rep)

\* text.replace(/\r\n/g, "\n").replace(/\r/g, "\n")
NormalizeLineEndings(s) ==
    ReplaceAll(ReplaceAll(s, <<"\r", "\n">>, <<"\n">>), <<"\r">>, <<"\n">>)

\* /<i>.*<\/i>/i.test(s): an opening tag and, after it, a closing tag with
\* no line terminator between the two.
ItalicTest(s) ==
    \E i \in 1..Len(s) :
        /\ StartsWithAtNoCase(s, i, Chars("<i>"))
        /\ \E j \in (i + 3)..Len(s) :
              /\ StartsWithAtNoCase(s, j, Chars("</i>"))
              /\ \A k \in (i + 3)..(j - 1) : s[k] \notin LineTerminator

\* htmlTags.forEach(p => text = text.replace(p, "")), from pattern k on
\* (each replacement is evaluated before the next is entered)
RECURSIVE StripTags(_, _)
StripTags(s, k) ==
    IF k > Len(htmlTags) THEN s
    ELSE LET next == RegexReplace(htmlTags[k], s, <<>>)
         IN  IF Len(next) >= 0 THEN StripTags(next, k + 1) ELSE next

\* lines.map(line => line.trim()).filter(line => line.length > 0)
RECURSIVE TrimAndDropEmpty(_)
TrimAndDropEmpty(lines) ==
    IF Len(lines) = 0 THEN <<>>
    ELSE IF Len(Trim(Head(lines))) = 0 THEN TrimAndDropEmpty(Tail(lines))
    ELSE <<Trim(Head(lines))>> \o TrimAndDropEmpty(Tail(lines))

\* The statements of the try block that assign text (and style), in their
\* order; st holds the values of text and style before the statement.
CleanSteps == 9

CleanStep(k, st) ==
    CASE k = 1 -> [st EXCEPT !.text = ReplaceAll(st.text, <<"UFEFF">>, <<>>)]
      [] k = 2 -> [st EXCEPT !.text = fixEncodingArtifacts(st.text)]
      [] k = 3 -> [st EXCEPT !.text = NormalizeLineEndings(st.text)]
      [] k = 4 -> IF ItalicTest(st.text)
                  THEN [text  |-> RegexReplace(ItalicTagRe, st.text, <<>>),
                        style |-> "Italic"]
                  ELSE st
      [] k = 5 -> [st EXCEPT !.text = StripTags(st.text, 1)]
      [] k = 6 -> [st EXCEPT !.text = RegexReplace(BreakTagRe, st.text, BreakMarker)]
      [] k = 7 -> [st EXCEPT !.text = ReplaceEach(st.text, htmlEntities)]
      [] k = 8 -> [st EXCEPT !.text = ReplaceAll(st.text, <<"\n">>, BreakMarker)]
      [] k = 9 -> [st EXCEPT !.text =
                      Trim(Join(TrimAndDropEmpty(Split(st.text, BreakMarker)), BreakMarker))]

\* The statements from statement k on, one after the other (each is
\* evaluated before the next is entered).
RECURSIVE CleanFrom(_, _)
CleanFrom(k, st) ==
    IF k > CleanSteps THEN st
    ELSE LET next == CleanStep(k, st)
         IN  IF Len(next.text) >= 0 THEN CleanFrom(k + 1, next) ELSE next

\* originalText.trim() with its white space runs kept, in place of collapsed.
UncollapsedOriginal(originalText) == Trim(originalText)

\* originalText.trim() with its white space runs replaced by one space
CollapsedOriginal(originalText) ==
    RegexReplace(WhiteSpaceRunRe, Trim(originalText), <<" ">>)

EmptySubtitle == Chars("[Empty subtitle]")

\* The catch block of cleanAndFormatText is not modelled: nothing in the try
\* block throws on a string.
cleanAndFormatText(str) ==
    IF Len(str) = 0 THEN [cleanedText |-> <<>>, style |-> "Default"]
    ELSE LET st == CleanFrom(1, [text |-> str, style |-> "Default"])
         IN  [cleanedText |-> IF Len(st.text) > 0 THEN st.text
                              ELSE IF Len(CollapsedOriginal(str)) > 0
                              THEN CollapsedOriginal(str)
                              ELSE EmptySubtitle,
              style       |-> st.style]

(***************************************************************************)
(* parseSRTBlock                                                           *)
(***************************************************************************)
\* A number of JavaScript that is an integer or NaN.
NaN == [nan |-> TRUE, val |-> 0]

IntNumber(n) == [nan |-> FALSE, val |-> n]

\* Number.parseInt(s): white space is skipped, then a sign and the longest
\* run of decimal digits are read; NaN when there is no digit.  It never
\* throws, so the catch block of lines 299-306 never runs.  (The prefix 0x
\* is not modelled; no input of the model holds it.)
ParseInt(s) ==
    LET t       == Trim(s)
        signLen == IF Len(t) > 0 /\ t[1] \in {"+", "-"} THEN 1 ELSE 0
        n       == DigitRun(t, signLen + 1)
        abs     == DecimalValue(SubSeq(t, signLen + 1, signLen + n))
    IN  IF n = 0 THEN NaN
        ELSE IntNumber(IF signLen = 1 /\ t[1] = "-" THEN 0 - abs ELSE abs)

\* const timePatterns: the separators of the three patterns, in their order
timePatterns == << Chars("-->"), <<"U2192">>, Chars("-") >>

\* Where TIME\s*SEP\s*TIME matches at index i of s: the indices and lengths
\* of its two groups, <<>> when it does not match there.
RangeAt(s, sep, i) ==
    LET n1 == TimeLenAt(s, i)
        a  == i + n1 + WsRun(s, i + n1)
        b  == a + Len(sep) + WsRun(s, a + Len(sep))
    IN  IF n1 > 0 /\ StartsWithAt(s, a, sep) /\ TimeLenAt(s, b) > 0
        THEN <<SubSeq(s, i, i + n1 - 1), SubSeq(s, b, b + TimeLenAt(s, b) - 1)>>
        ELSE <<>>

\* timeLine.match(pattern): the groups of the leftmost match, <<>> for null
RangeMatch(s, sep) ==
    LET found == {i \in 1..Len(s) : RangeAt(s, sep, i) # <<>>}
    IN  IF found = {} THEN <<>>
        ELSE RangeAt(s, sep, CHOOSE i \in found : \A k \in found : i <= k)

\* for (const pattern of timePatterns) { timeMatch = ...; if (timeMatch) break }
TimeMatch(timeLine) ==
    IF RangeMatch(timeLine, timePatterns[1]) # <<>> THEN RangeMatch(timeLine, timePatterns[1])
    ELSE IF RangeMatch(timeLine, timePatterns[2]) # <<>> THEN RangeMatch(timeLine, timePatterns[2])
    ELSE RangeMatch(timeLine, timePatterns[3])

\* block.trim().split("\n").map(line => line.trim()).filter(line => line)
BlockLines(block) == TrimAndDropEmpty(Split(Trim(block), <<"\n">>))

\* A block with fewer lines than this is rejected.
MinBlockLines == 3

\* return { number, start, end, text, style, originalText }, with cleaned
\* what cleanAndFormatText returned for the cue text
SubtitleEntry(number, timeMatch, cueText, cleaned) ==
    [number       |-> number,
     start        |-> parseSRTTime(timeMatch[1]),
     end          |-> parseSRTTime(timeMatch[2]),
     text         |-> cleaned.cleanedText,
     style        |-> cleaned.style,
     originalText |-> cueText]

\* The body of parseSRTBlock from the parsing of the number on, for the
\* lines of a block and the match of its time line.
ParseLines(lines, timeMatch, cueText) ==
    IF timeMatch = <<>> THEN <<>>
    ELSE <<SubtitleEntry(ParseInt(lines[1]), timeMatch, cueText, cleanAndFormatText(cueText))>>

\* The body of parseSRTBlock from the length check on, for the lines of a
\* block.
ParseBlockLines(lines) ==
    IF Len(lines) < MinBlockLines THEN <<>>
    ELSE ParseLines(lines, TimeMatch(lines[2]), Join(SubSeq(lines, 3, Len(lines)), <<"\n">>))

\* parseSRTBlock: <<>> for null, <<entry>> for a SubtitleEntry.
parseSRTBlock(block) == ParseBlockLines(BlockLines(block))

(***************************************************************************)
(* parseSRTFile                                                            *)
(***************************************************************************)
\* For a line feed at index i of s: the index of the last line feed that
\* /\n\s*\n/ matched at i takes in (\s* is greedy and gives back until a
\* line feed follows), 0 when the pattern does not match at i.
BlankLineEnd(s, i) ==
    LET ends == {k \in (i + 1)..(i + WsRun(s, i + 1)) : s[k] = "\n"}
    IN  IF s[i] # "\n" \/ ends = {} THEN 0
        ELSE CHOOSE k \in ends : \A m \in ends : m <= k

\* s.split(/\n\s*\n/), for the part of s from index from on
RECURSIVE SplitBlocksFrom(_, _)
SplitBlocksFrom(s, from) ==
    LET found == {i \in from..Len(s) : BlankLineEnd(s, i) > 0}
        at    == CHOOSE i \in found : \A k \in found : i <= k
    IN  IF found = {} THEN <<SubSeq(s, from, Len(s))>>
        ELSE <<SubSeq(s, from, at - 1)>> \o SplitBlocksFrom(s, BlankLineEnd(s, at) + 1)

SplitBlocks(s) == SplitBlocksFrom(s, 1)

\* A loop that stops at the first block parseSRTBlock rejects, in place of
\* one that goes on.
RECURSIVE ParseBlocksAbort(_, _)
ParseBlocksAbort(blocks, k) ==
    IF k > Len(blocks) THEN <<>>
    ELSE IF Len(Trim(blocks[k])) = 0 THEN ParseBlocksAbort(blocks, k + 1)
    ELSE IF parseSRTBlock(blocks[k]) = <<>> THEN <<>>
    ELSE parseSRTBlock(blocks[k]) \o ParseBlocksAbort(blocks, k + 1)

\* The loop of lines 370-381 over the blocks from block k on.
RECURSIVE ParseBlocks(_, _)
ParseBlocks(blocks, k) ==
    IF k > Len(blocks) THEN <<>>
    ELSE IF Len(Trim(blocks[k])) = 0 THEN ParseBlocks(blocks, k + 1)
    ELSE parseSRTBlock(blocks[k]) \o ParseBlocks(blocks, k + 1)

\* (a, b) => a.number - b.number, a NaN taken as +0 as Array.prototype.sort
\* takes it
CompareNumber(a, b) ==
    IF a.number.nan \/ b.number.nan THEN 0 ELSE a.number.val - b.number.val

\* The comparison is consistent over the list: being equal is transitive.
\* (With a NaN number in the list it is only when all integers are equal.)
ConsistentComparison(list) ==
    \A i, j, k \in 1..Len(list) :
        (CompareNumber(list[i], list[j]) = 0 /\ CompareNumber(list[j], list[k]) = 0)
            => CompareNumber(list[i], list[k]) = 0

\* list with entry e put after the entries of the sorted list that are not
\* greater than it
RECURSIVE InsertSorted(_, _)
InsertSorted(sorted, e) ==
    IF Len(sorted) = 0 THEN <<e>>
    ELSE IF CompareNumber(sorted[Len(sorted)], e) <= 0 THEN Append(sorted, e)
    ELSE Append(InsertSorted(SubSeq(sorted, 1, Len(sorted) - 1), e), sorted[Len(sorted)])

\* The stable sort by number of a list the comparison is consistent over.
RECURSIVE StableSort(_)
StableSort(list) ==
    IF Len(list) = 0 THEN <<>>
    ELSE InsertSorted(StableSort(SubSeq(list, 1, Len(list) - 1)), list[Len(list)])

Reorderings(list) ==
    {[k \in 1..Len(list) |-> list[p[k]]] :
        p \in {q \in [1..Len(list) -> 1..Len(list)] :
                  \A i, j \in 1..Len(list) : q[i] = q[j] => i = j}}

\* What subtitles.sort((a, b) => a.number - b.number) may leave: the stable
\* sort, and with a comparison that is not consistent an order the
\* implementation defines (ECMAScript, Array.prototype.sort): any order.
SortOutcomes(list) ==
    IF ConsistentComparison(list) THEN {StableSort(list)} ELSE Reorderings(list)

\* parseSRTFile: the lists it may return.  For a content that is empty
\* after trim() the try block throws Error("File is empty or contains no
\* readable content"), which its catch block logs and turns into [].
parseSRTFile(content) ==
    IF Len(Trim(content)) = 0 THEN {<<>>}
    ELSE SortOutcomes(ParseBlocks(SplitBlocks(Trim(NormalizeLineEndings(content))), 1))

(***************************************************************************)
(* validateSubtitleTiming                                                  *)
(***************************************************************************)
\* The hundredths of a second that
\*   parseInt(parts[0]) * 3600 + parseInt(parts[1]) * 60 + parseFloat(parts[2])
\* stands for, parts = t.split(":"), for a time t of the form H:MM:SS.cc.
\* Each value the code computes is a multiple of 0.01 below 2^31, which a
\* double holds to within 10^-9, so that <=, Math.floor, % and toFixed(2)
\* give on the doubles what they give on the hundredths.
TimeToCentis(t) ==
    LET parts == Split(t, <<":">>)
        sec   == Split(parts[3], <<".">>)
    IN  DecimalValue(parts[1]) * 360000 + DecimalValue(parts[2]) * 6000
            + DecimalValue(sec[1]) * 100 + DecimalValue(PadEnd(sec[2], 2))

\* `${hours}:${minutes padStart 2}:${seconds.toFixed(2).padStart(5, "0")}`
\* for endSeconds given in hundredths
FormatEnd(centis) ==
    LET hours   == centis \div 360000
        minutes == (centis % 360000) \div 6000
        seconds == centis % 6000
    IN  NatToString(hours) \o <<":">> \o PadStart(NatToString(minutes), 2) \o <<":">>
            \o PadStart(NatToString(seconds \div 100) \o <<".">>
                          \o PadStart(NatToString(seconds % 100), 2), 5)

\* The minimum duration added to the start: 1.0 second, in hundredths.
MinDurationCentis == 100

\* A loop body that leaves an end equal to the start alone, in place of one
\* that extends it.
ValidateEntryStrict(sub) ==
    IF TimeToCentis(sub.end) < TimeToCentis(sub.start)
    THEN [sub EXCEPT !.end = FormatEnd(TimeToCentis(sub.start) + MinDurationCentis)]
    ELSE sub

\* The body of the loop for one entry.
ValidateEntry(sub) ==
    IF TimeToCentis(sub.end) <= TimeToCentis(sub.start)
    THEN [sub EXCEPT !.end = FormatEnd(TimeToCentis(sub.start) + MinDurationCentis)]
    ELSE sub

\* A loop that pushes the entries from the last to the first, in place of
\* from the first to the last.
validateSubtitleTimingReversed(subs) ==
    [k \in 1..Len(subs) |-> ValidateEntry(subs[Len(subs) + 1 - k])]

validateSubtitleTiming(subs) == [k \in 1..Len(subs) |-> ValidateEntry(subs[k])]

(***************************************************************************)
(* writeASSFile                                                            *)
(***************************************************************************)
\* The lines of the template literal assHeader.
assHeaderLines ==
    << Chars("[Script Info]"),
       Chars("Title: Converted from SRT"),
       Chars("ScriptType: v4.00+"),
       Chars("WrapStyle: 0"),
       Chars("ScaledBorderAndShadow: yes"),
       Chars("YCbCr Matrix: TV.601"),
       Chars("PlayResX: 1920"),
       Chars("PlayResY: 1080"),
       <<>>,
       Chars("[V4+ Styles]"),
       Chars("Format: Name, Fontname, Fontsize, PrimaryColour, SecondaryColour, OutlineColour, BackColour, Bold, Italic, Underline, StrikeOut, ScaleX, ScaleY, Spacing, Angle, BorderStyle, Outline, Shadow, Alignment, MarginL, MarginR, MarginV, Encoding"),
       Chars("Style: Default,Arial,20,&H00FFFFFF,&H000000FF,&H00000000,&H80000000,0,0,0,0,100,100,0,0,1,2,2,2,10,10,10,1"),
       Chars("Style: Title,Arial,24,&H00FFFFFF,&H000000FF,&H00000000,&H80000000,-1,0,0,0,100,100,0,0,1,2,2,8,10,10,10,1"),
       Chars("Style: Italic,Arial,20,&H00FFFFFF,&H000000FF,&H00000000,&H80000000,0,-1,0,0,100,100,0,0,1,2,2,2,10,10,10,1"),
       <<>>,
       Chars("[Events]"),
       Chars("Format: Layer, Start, End, Style, Name, MarginL, MarginR, MarginV, Effect, Text") >>

\* assHeader: each of its lines ends with a line feed.
assHeader == Join(assHeaderLines, <<"\n">>) \o <<"\n">>

\* A Dialogue line without its line feed, in place of one that ends with it.
DialogueLineUnended(sub) ==
    Chars("Dialogue: 0,") \o sub.start \o <<",">> \o sub.end \o <<",">>
        \o Chars(sub.style) \o Chars(",,0,0,0,,") \o sub.text

\* `Dialogue: 0,${sub.start},${sub.end},${sub.style},,0,0,0,,${sub.text}\n`
DialogueLine(sub) ==
    Chars("Dialogue: 0,") \o sub.start \o <<",">> \o sub.end \o <<",">>
        \o Chars(sub.style) \o Chars(",,0,0,0,,") \o sub.text \o <<"\n">>

RECURSIVE DialogueLines(_)
DialogueLines(subs) ==
    IF Len(subs) = 0 THEN <<>>
    ELSE DialogueLine(Head(subs)) \o DialogueLines(Tail(subs))

writeASSFile(subs) == assHeader \o DialogueLines(subs)

(***************************************************************************)
(* convertToASS                                                            *)
(***************************************************************************)
NoSubtitlesMessage == Chars("No valid subtitles found in the SRT file")

\* A failure object that carries a count, in place of one without.
NoSubtitlesResultCounted ==
    [success |-> FALSE, error |-> NoSubtitlesMessage, subtitleCount |-> 0]

\* The object returned when parseSRTFile returned no entry.
NoSubtitlesResult == [success |-> FALSE, error |-> NoSubtitlesMessage]

\* The object returned after writeASSFile.
SuccessResult(content, subs) ==
    [success |-> TRUE, content |-> content, subtitleCount |-> Len(subs)]

(***************************************************************************)
(* Values the variables of a computation that is not under way hold        *)
(***************************************************************************)
\* result before convertToASS has returned
NoResult == [pending |-> TRUE]

(***************************************************************************)
(* Spec: convertToASS applied to one document                              *)
(***************************************************************************)
\* The most cue blocks of the documents tried.
MaxBlocks == 3

\* A cue block as the document writes it: its index line, the two
\* timestamps and the separator of its time line, and its text lines.
Block(index, start, sep, end, lines) ==
    [index |-> Chars(index), start |-> Chars(start), sep |-> sep,
     end |-> Chars(end), lines |-> lines]

\* Blocks with an integer index line, a valid time-range line (one with its
\* end before its start, one with short fractions and the arrow character,
\* one with the bare hyphen) and one text line or two.
WellFormedBlocks ==
    { Block("1", "00:00:01,000", Chars("-->"), "00:00:02,500", <<Chars("Hello")>>),
      Block("2", "00:00:05,000", Chars("-->"), "00:00:03,000", <<Chars("<i>Hi</i>")>>),
      Block("3", "0:59:59.5", <<"U2192">>, "1:00:01.25", <<Chars("A"), Chars("B")>>),
      Block("10", "00:01:00,000", Chars("-"), "00:01:02,000", <<Chars("World")>>) }

\* A block of two lines, and one whose time line has none of the three
\* separators.
UnparsableBlocks ==
    { Block("4", "00:00:08,000", Chars("-->"), "00:00:09,000", <<>>),
      Block("5", "00:00:10,000", Chars("==>"), "00:00:11,000", <<Chars("Lost")>>) }

\* A block whose index line holds no digit, and one whose end has 61 seconds.
OddBlocks ==
    { Block("x", "00:00:12,000", Chars("-->"), "00:00:13,000", <<Chars("NoIndex")>>),
      Block("6", "00:00:14,000", Chars("-->"), "00:00:61,000", <<Chars("Late")>>) }

BlockPool == WellFormedBlocks \cup UnparsableBlocks \cup OddBlocks

\* The lists of n different blocks.
BlockLists(n) ==
    {l \in [1..n -> BlockPool] : \A i, j \in 1..n : l[i] = l[j] => i = j}

\* The empty document and one of white space only.
BlankDocuments == {<<>>, <<" ", "\n", " ", "\n">>}

\* A document that is not blank and holds no cue block.
GarbageDocuments == {Chars("not a subtitle file")}

\* The line endings of the documents: LF and CR LF.
LineEndings == {<<"\n">>, <<"\r", "\n">>}

DocumentGivens ==
    [shape : {"document"}, blocks : UNION {BlockLists(n) : n \in 1..MaxBlocks},
     raw : {<<>>}, eol : LineEndings]
    \cup
    [shape : {"raw"}, blocks : {<<>>}, raw : BlankDocuments \cup GarbageDocuments,
     eol : {<<"\n">>}]

ComposeBlock(b, eol) ==
    b.index \o eol \o b.start \o <<" ">> \o b.sep \o <<" ">> \o b.end
        \o (IF Len(b.lines) = 0 THEN <<>> ELSE eol \o Join(b.lines, eol))

\* The blocks, a blank line between two of them, and a final line ending.
ComposeDocument(g) ==
    IF g.shape = "raw" THEN g.raw
    ELSE Join([k \in 1..Len(g.blocks) |-> ComposeBlock(g.blocks[k], g.eol)], g.eol \o g.eol)
            \o g.eol

Init ==
    /\ pc = "parseSRTFile"
    /\ given \in DocumentGivens
    /\ srtContent = ComposeDocument(given)
    /\ subtitles = <<>> /\ validatedSubtitles = <<>>
    /\ assContent = <<>> /\ result = NoResult
    /\ timeStr = <<>> /\ text = <<>> /\ ret = <<>>
    /\ PageAtRest

\* const subtitles = this.parseSRTFile(srtContent)
ParseSRTFile ==
    /\ pc = "parseSRTFile"
    /\ subtitles' \in parseSRTFile(srtContent)
    /\ pc' = "parsed"
    /\ UNCHANGED <<srtContent, validatedSubtitles, assContent, result,
                   timeStr, text, ret, given>>
    /\ UNCHANGED pageVars

\* if (!subtitles.length) return { success: false, error: ... }
ReturnNoSubtitles ==
    /\ pc = "parsed"
    /\ Len(subtitles) = 0
    /\ result' = NoSubtitlesResult
    /\ pc' = "returned"
    /\ UNCHANGED <<srtContent, subtitles, validatedSubtitles, assContent,
                   timeStr, text, ret, given>>
    /\ UNCHANGED pageVars

\* const validatedSubtitles = this.validateSubtitleTiming(subtitles): the
\* entries of subtitles are changed in place, and the list returned holds
\* them.
ValidateSubtitleTiming ==
    /\ pc = "parsed"
    /\ Len(subtitles) # 0
    /\ validatedSubtitles' = validateSubtitleTiming(subtitles)
    /\ subtitles' = validatedSubtitles'
    /\ pc' = "validated"
    /\ UNCHANGED <<srtContent, assContent, result, timeStr, text, ret, given>>
    /\ UNCHANGED pageVars

\* const assContent = this.writeASSFile(validatedSubtitles)
WriteASSFile ==
    /\ pc = "validated"
    /\ assContent' = writeASSFile(validatedSubtitles)
    /\ pc' = "written"
    /\ UNCHANGED <<srtContent, subtitles, validatedSubtitles, result,
                   timeStr, text, ret, given>>
    /\ UNCHANGED pageVars

\* return { success: true, content: assContent, subtitleCount: ... }
ReturnSuccess ==
    /\ pc = "written"
    /\ result' = SuccessResult(assContent, validatedSubtitles)
    /\ pc' = "returned"
    /\ UNCHANGED <<srtContent, subtitles, validatedSubtitles, assContent,
                   timeStr, text, ret, given>>
    /\ UNCHANGED pageVars

\* The catch block of convertToASS (lines 497-503) is no action: parseSRTFile
\* catches what it throws, and nothing in validateSubtitleTiming or
\* writeASSFile throws on the entries parseSRTBlock builds.
Next ==
    \/ ParseSRTFile
    \/ ReturnNoSubtitles
    \/ ValidateSubtitleTiming
    \/ WriteASSFile
    \/ ReturnSuccess

Spec == Init /\ [][Next]_vars

\* The number of lines of content that begin with Dialogue:
DialogueLineCount(content) ==
    Cardinality({i \in 1..Len(content) :
                    /\ (i = 1 \/ content[i - 1] = "\n")
                    /\ StartsWithAt(content, i, Chars("Dialogue:"))})

\* convertToASS has returned for a document of cue blocks
ReturnedForBlocks == pc = "returned" /\ given.shape = "document"

\* C1: for a document of N >= 1 well-formed cue blocks, blank lines between
\* them, convertToASS returns success = true with subtitleCount = N and a
\* content of which exactly N lines begin with Dialogue:
C1_WellFormedBlocksAllConverted ==
    (/\ ReturnedForBlocks
     /\ \A k \in 1..Len(given.blocks) : given.blocks[k] \in WellFormedBlocks)
    => /\ result.success = TRUE
       /\ result.subtitleCount = Len(given.blocks)
       /\ DialogueLineCount(result.content) = Len(given.blocks)

\* C1 witness: a document of three well-formed blocks was converted into
\* three Dialogue lines.
C1_Witness ==
    /\ ReturnedForBlocks
    /\ Len(given.blocks) = 3
    /\ \A k \in 1..3 : given.blocks[k] \in WellFormedBlocks
    /\ result.success = TRUE
    /\ DialogueLineCount(result.content) = 3

\* C2: whatever the order of the blocks in the document, the Dialogue lines
\* of the content are those of the records in ascending order of index: no
\* record with an integer index comes before one with a smaller integer
\* index.
C2_DialogueLinesAscending ==
    (pc = "returned" /\ result.success = TRUE)
    => /\ result.content = writeASSFile(validatedSubtitles)
       /\ \A i, j \in 1..Len(validatedSubtitles) :
              (/\ i < j
               /\ ~validatedSubtitles[i].number.nan
               /\ ~validatedSubtitles[j].number.nan)
              => validatedSubtitles[i].number.val <= validatedSubtitles[j].number.val

\* C3: for an empty document or one of white space only, convertToASS
\* returns success = false with an error that is not the error "No valid
\* subtitles found in the SRT file" of a document in which no block parses.
C3_EmptyDocumentErrorDistinct ==
    (pc = "returned" /\ given.shape = "raw" /\ given.raw \in BlankDocuments)
    => /\ result.success = FALSE
       /\ result.error # NoSubtitlesMessage

\* The blocks of the document are well-formed or unparsable.
OnlyWellFormedAndUnparsable ==
    \A k \in 1..Len(given.blocks) :
        given.blocks[k] \in WellFormedBlocks \cup UnparsableBlocks

\* The number of unparsable blocks of the document.
UnparsableCount ==
    Cardinality({k \in 1..Len(given.blocks) : given.blocks[k] \in UnparsableBlocks})

\* C8, as stated: for a document of k blocks of which m are unparsable and
\* the rest well-formed, convertToASS reports subtitleCount = k - m.
C8_CountIsBlocksLessUnparsable ==
    (ReturnedForBlocks /\ OnlyWellFormedAndUnparsable)
    => /\ "subtitleCount" \in DOMAIN result
       /\ result.subtitleCount = Len(given.blocks) - UnparsableCount

\* C8, amended: for a document of k blocks of which m are unparsable and the
\* rest well-formed, convertToASS reports success with subtitleCount = k - m
\* when k - m >= 1, and when every block is unparsable (m = k) it returns
\* the failure "No valid subtitles found in the SRT file", which has no
\* subtitleCount.
C8_UnparsableBlocksDropped ==
    (ReturnedForBlocks /\ OnlyWellFormedAndUnparsable)
    => IF Len(given.blocks) - UnparsableCount >= 1
       THEN /\ result.success = TRUE
            /\ result.subtitleCount = Len(given.blocks) - UnparsableCount
       ELSE /\ result.success = FALSE
            /\ result.error = NoSubtitlesMessage
            /\ "subtitleCount" \notin DOMAIN result

\* C8 witness: a document of three blocks with an unparsable block before a
\* well-formed one was converted into two records.
C8_Witness ==
    /\ ReturnedForBlocks
    /\ Len(given.blocks) = 3
    /\ given.blocks[1] \in WellFormedBlocks
    /\ given.blocks[2] \in UnparsableBlocks
    /\ given.blocks[3] \in WellFormedBlocks
    /\ result.success = TRUE
    /\ result.subtitleCount = 2

\* A step of convertToASS can be taken: the conditions under which one of
\* the five actions of Next has a next state.
StepPossible ==
    \/ pc = "parseSRTFile" /\ parseSRTFile(srtContent) # {}
    \/ pc = "parsed" /\ Len(subtitles) = 0
    \/ pc = "parsed" /\ Len(subtitles) # 0
          /\ Len(validateSubtitleTiming(subtitles)) = Len(subtitles)
    \/ pc = "validated" /\ Len(writeASSFile(validatedSubtitles)) >= Len(assHeader)
    \/ pc = "written"

\* C10: convertToASS goes on until it returns: a step can be taken as long
\* as it has not returned, and it has a result exactly when it has
\* returned.  What it returns has content and subtitleCount exactly when
\* success is true and error exactly when success is false.
C10_ResultShape ==
    /\ pc # "returned" => StepPossible
    /\ pc = "returned" <=> result # NoResult
    /\ pc = "returned" =>
          \/ result.success = TRUE
             /\ DOMAIN result = {"success", "content", "subtitleCount"}
          \/ result.success = FALSE
             /\ DOMAIN result = {"success", "error"}

\* C10 witness: convertToASS returned a failure, with an error and nothing
\* else, for a document that is not blank and holds no cue block.
C10_Witness ==
    /\ pc = "returned"
    /\ given.shape = "raw"
    /\ given.raw \in GarbageDocuments
    /\ result.success = FALSE
    /\ DOMAIN result = {"success", "error"}

\* C12: a block whose first line holds no digit is rejected, and the index
\* of every record is an integer: no record with a NaN index is in the list
\* parseSRTFile sorts and returns.
C12_NoNaNIndex ==
    /\ \A k \in 1..Len(subtitles) : ~subtitles[k].number.nan
    /\ (pc # "parseSRTFile" /\ given.shape = "document")
       => Len(subtitles) <=
             Cardinality({k \in 1..Len(given.blocks) :
                             \E i \in 1..Len(given.blocks[k].index) :
                                 given.blocks[k].index[i] \in Digit})

\* The content after the fixed header.
AfterHeader(content) == SubSeq(content, Len(assHeader) + 1, Len(content))

\* The number of line feeds of s.
LineFeedCount(s) == Cardinality({i \in 1..Len(s) : s[i] = "\n"})

\* C18: the text of a record holds no raw line feed or carriage return, so
\* in the content returned every record takes exactly one line after the
\* fixed header: what follows the header is subtitleCount lines, each ended
\* by a line feed and each beginning with Dialogue:
C18_OneLinePerRecord ==
    /\ \A k \in 1..Len(subtitles) :
          \A i \in 1..Len(subtitles[k].text) : subtitles[k].text[i] \notin {"\n", "\r"}
    /\ (pc = "returned" /\ result.success = TRUE)
       => LET lines == AfterHeader(result.content)
          IN  /\ SubSeq(result.content, 1, Len(assHeader)) = assHeader
              /\ \A i \in 1..Len(lines) : lines[i] # "\r"
              /\ LineFeedCount(lines) = result.subtitleCount
              /\ Len(lines) > 0 => lines[Len(lines)] = "\n"
              /\ DialogueLineCount(lines) = result.subtitleCount

\* C18 witness: a document with CR LF line endings whose cue of the two
\* lines A and B was written as the one line ending in A\NB, among the three
\* lines after the header.
C18_Witness ==
    /\ ReturnedForBlocks
    /\ given.eol = <<"\r", "\n">>
    /\ Len(given.blocks) = 3
    /\ \E k \in 1..3 : given.blocks[k].lines = <<Chars("A"), Chars("B")>>
    /\ result.success = TRUE
    /\ result.subtitleCount = 3
    /\ LineFeedCount(AfterHeader(result.content)) = 3
    /\ \E k \in 1..3 : validatedSubtitles[k].text = Chars("A\\NB")

(***************************************************************************)
(* SpecCue: convertToASS applied to a document of one cue block            *)
(***************************************************************************)
\* The most lines of the cue texts of SpecCue.
MaxTextLines == 2

\* The lines the cue texts are made of.
TextLinePool ==
    { Chars("Hello"), Chars("A<br>B"), Chars("A<br/>B"), Chars("A<br />B"),
      Chars("<b>Bold</b>"), Chars("<i>Hi</i>"), Chars("say <i>no</i> now"),
      Chars("<u></u>"), Chars("<i>"), Chars("</i>"), Chars("&nbsp;") }

\* A cue text around the key of an entry of encodingFixes ("entry"), or of
\* lines of the pool ("lines").
CueGivens ==
    [shape : {"entry"}, entry : 1..Len(encodingFixesLiteral), lines : {<<>>}]
    \cup
    [shape : {"lines"}, entry : {0},
     lines : UNION {[1..n -> TextLinePool] : n \in 0..MaxTextLines}]

\* The lines of the cue text: for an entry, its key between two letters.
CueLines(g) ==
    IF g.shape = "entry"
    THEN << <<"a">> \o encodingFixesLiteral[g.entry][1] \o <<"b">> >>
    ELSE g.lines

\* The document: index 1, from 1 s to 2 s, and the lines of the cue text.
CueDocument(g) ==
    Chars("1\n00:00:01,000 --> 00:00:02,000\n")
        \o Join([k \in 1..Len(CueLines(g)) |-> CueLines(g)[k] \o <<"\n">>], <<>>)

CueInit ==
    /\ pc = "parseSRTFile"
    /\ given \in CueGivens
    /\ srtContent = CueDocument(given)
    /\ subtitles = <<>> /\ validatedSubtitles = <<>>
    /\ assContent = <<>> /\ result = NoResult
    /\ timeStr = <<>> /\ text = <<>> /\ ret = <<>>
    /\ PageAtRest

SpecCue == CueInit /\ [][Next]_vars

\* The content with one Dialogue line of the given style and text for the
\* cue of CueDocument.
OneDialogue(style, cueText) ==
    assHeader \o Chars("Dialogue: 0,0:00:01.00,0:00:02.00,") \o Chars(style)
        \o Chars(",,0,0,0,,") \o cueText \o <<"\n">>

\* C11: for every entry of the substitution table, a cue text that holds the
\* entry's corrupted sequence (between two letters) comes out with the
\* entry's letter in its place: the Dialogue line of the content holds the
\* letter and nothing of the corrupted sequence.
C11_MojibakeRestored ==
    (pc = "returned" /\ given.shape = "entry")
    => /\ result.success = TRUE
       /\ result.content =
              OneDialogue("Default",
                          <<"a">> \o encodingFixesLiteral[given.entry][2] \o <<"b">>)

\* The lines of the pool with a line-break tag between A and B.
BreakTagLines == {Chars("A<br>B"), Chars("A<br/>B"), Chars("A<br />B")}

\* C13: a line-break tag (<br>, <br/>, <br />) inside a cue text becomes the
\* break marker \N: the cue text A<br>B comes out as A\NB, and the removal
\* of the other tags does not take the line-break tag away.
C13_BreakTagBecomesMarker ==
    (/\ pc = "returned"
     /\ given.shape = "lines"
     /\ Len(given.lines) = 1
     /\ given.lines[1] \in BreakTagLines)
    => /\ result.success = TRUE
       /\ result.content = OneDialogue("Default", Chars("A\\NB"))

\* Lines of the pool that tag stripping and white space cleaning leave
\* nothing of.
EmptiedLines == {Chars("<u></u>"), Chars("&nbsp;")}

\* C15: every record parseSRTBlock produces has a non-empty text, and so
\* has the Dialogue line written for it: for a cue text that cleaning leaves
\* nothing of, the text is the original cue text with its white space runs
\* (the line feeds between its lines) collapsed to single spaces.
C15_TextNeverEmpty ==
    /\ \A k \in 1..Len(subtitles) : Len(subtitles[k].text) > 0
    /\ (/\ pc = "returned"
        /\ given.shape = "lines"
        /\ Len(given.lines) >= 1
        /\ \A k \in 1..Len(given.lines) : given.lines[k] \in EmptiedLines)
       => /\ result.success = TRUE
          /\ result.content = OneDialogue("Default", Join(given.lines, <<" ">>))

\* C15 witness: the cue text of the two lines <u></u> and &nbsp; was
\* written as <u></u> &nbsp;
C15_Witness ==
    /\ pc = "returned"
    /\ given.shape = "lines"
    /\ given.lines = <<Chars("<u></u>"), Chars("&nbsp;")>>
    /\ result.success = TRUE
    /\ result.content = OneDialogue("Default", Chars("<u></u> &nbsp;"))

(***************************************************************************)
(* SpecTiming: validateSubtitleTiming applied to a list of records         *)
(***************************************************************************)
\* The most records of the lists tried.
MaxRecords == 2

\* Times in hundredths of a second: 0:00:00.00 (the sentinel), 0:00:03.00,
\* 0:00:05.00, 0:59:59.50 and 99:59:59.99.
CentisPool == {0, 300, 500, 359950, 35999999}

\* A time of the pool as parseSRTTime writes it.
ASSTime(centis) ==
    FormatASSTime(centis \div 360000, (centis % 360000) \div 6000,
                  (centis % 6000) \div 100, centis % 100)

TimingPairs == [start : CentisPool, end : CentisPool]

TimingGivens ==
    [shape : {"records"}, pairs : UNION {[1..n -> TimingPairs] : n \in 0..MaxRecords}]

\* The record parseSRTBlock would build for the k-th pair.
TimingRecord(pair, k) ==
    [number       |-> IntNumber(k),
     start        |-> ASSTime(pair.start),
     end          |-> ASSTime(pair.end),
     text         |-> Chars("Hello"),
     style        |-> "Default",
     originalText |-> Chars("Hello")]

TimingInit ==
    /\ pc = "validateSubtitleTiming"
    /\ given \in TimingGivens
    /\ subtitles = [k \in 1..Len(given.pairs) |-> TimingRecord(given.pairs[k], k)]
    /\ validatedSubtitles = <<>>
    /\ srtContent = <<>> /\ assContent = <<>> /\ result = NoResult
    /\ timeStr = <<>> /\ text = <<>> /\ ret = <<>>
    /\ PageAtRest

\* The entries of subtitles are changed in place, and the list returned
\* holds them.
ValidateSubtitleTimingCall ==
    /\ pc = "validateSubtitleTiming"
    /\ validatedSubtitles' = validateSubtitleTiming(subtitles)
    /\ subtitles' = validatedSubtitles'
    /\ pc' = "returned"
    /\ UNCHANGED <<srtContent, assContent, result, timeStr, text, ret, given>>
    /\ UNCHANGED pageVars

NextTiming == ValidateSubtitleTimingCall

SpecTiming == TimingInit /\ [][NextTiming]_vars

\* A well-formed H:MM:SS.cc: digits for H, two digits each for MM < 60,
\* SS < 60 and cc.
WellFormedASSTime(t) ==
    LET n == DigitRun(t, 1)
    IN  /\ n >= 1
        /\ Len(t) = n + 9
        /\ t[n + 1] = ":" /\ t[n + 4] = ":" /\ t[n + 7] = "."
        /\ \A k \in {n + 2, n + 3, n + 5, n + 6, n + 8, n + 9} : t[k] \in Digit
        /\ t[n + 2] \in {"0", "1", "2", "3", "4", "5"}
        /\ t[n + 5] \in {"0", "1", "2", "3", "4", "5"}

\* C7: after validateSubtitleTiming every record has a well-formed end
\* later than its start: a record whose end was not later than its start
\* has end = start + 1.00 second, with carries into minutes and hours, and
\* a record whose end was later than its start keeps its end.
C7_EndAfterStart ==
    pc = "returned" =>
        /\ Len(validatedSubtitles) = Len(given.pairs)
        /\ \A k \in 1..Len(given.pairs) :
              LET pair == given.pairs[k]
                  sub  == validatedSubtitles[k]
                  end  == IF pair.end <= pair.start THEN pair.start + 100 ELSE pair.end
              IN  /\ sub.start = ASSTime(pair.start)
                  /\ WellFormedASSTime(sub.end)
                  /\ sub.end = ASSTime(end)
                  /\ end > pair.start

\* C7 witness: start 0:00:05.00 with end 0:00:03.00 got end 0:00:06.00, and
\* start 0:59:59.50 with the same end got end 1:00:00.50.
C7_Witness ==
    /\ pc = "returned"
    /\ Len(given.pairs) = 2
    /\ given.pairs[1] = [start |-> 500, end |-> 300]
    /\ given.pairs[2] = [start |-> 359950, end |-> 359950]
    /\ validatedSubtitles[1].start = Chars("0:00:05.00")
    /\ validatedSubtitles[1].end = Chars("0:00:06.00")
    /\ validatedSubtitles[2].start = Chars("0:59:59.50")
    /\ validatedSubtitles[2].end = Chars("1:00:00.50")

\* C16: validateSubtitleTiming returns a list of the length of its
\* argument with the same records in the same order, and changes nothing of
\* a record but its end: number, start, text, originalText and style are
\* those of the argument, and so is the end of a record whose end is later
\* than its start.
C16_OnlyEndChanges ==
    pc = "returned" =>
        /\ Len(validatedSubtitles) = Len(given.pairs)
        /\ DOMAIN validatedSubtitles = 1..Len(given.pairs)
        /\ \A k \in 1..Len(given.pairs) :
              LET before == TimingRecord(given.pairs[k], k)
                  after  == validatedSubtitles[k]
              IN  /\ DOMAIN after = DOMAIN before
                  /\ after.number = before.number
                  /\ after.start = before.start
                  /\ after.text = before.text
                  /\ after.originalText = before.originalText
                  /\ after.style = before.style
                  /\ [after EXCEPT !.end = before.end] = before
                  /\ given.pairs[k].end > given.pairs[k].start => after = before

\* C16 witness: of the two records (start 0:00:03.00, end 0:00:00.00) and
\* (start 0:00:03.00, end 0:00:05.00) the first got a new end and is
\* otherwise the record given, and the second is the record given.
C16_Witness ==
    /\ pc = "returned"
    /\ Len(given.pairs) = 2
    /\ given.pairs[1] = [start |-> 300, end |-> 0]
    /\ given.pairs[2] = [start |-> 300, end |-> 500]
    /\ validatedSubtitles[1].end # TimingRecord(given.pairs[1], 1).end
    /\ validatedSubtitles[1].number = IntNumber(1)
    /\ validatedSubtitles[2] = TimingRecord(given.pairs[2], 2)

(***************************************************************************)
(* SpecTime: parseSRTTime applied to one string                            *)
(***************************************************************************)
\* The longest fraction of the time strings tried.
MaxFracLen == 4

TimeDigitPool == {"0", "5", "9"}

TimeHours == {Chars("0"), Chars("00"), Chars("7"), Chars("12"), Chars("99")}

TimeMinutes == {Chars("00"), Chars("01"), Chars("59"), Chars("60")}

TimeSeconds == {Chars("00"), Chars("23"), Chars("59"), Chars("61")}

TimeSeparators == {",", "."}

TimeFractions ==
    UNION {[1..n -> TimeDigitPool] : n \in 1..MaxFracLen} \cup {Chars("456"), Chars("04")}

\* Strings that are no H:MM:SS,f or HH:MM:SS,f with 1 to 3 digits f.
RawTimes ==
    {Chars("not-a-time"), <<>>, Chars("100:00:05,000"), Chars("x00:01:02,345"),
     Chars("1:2:3,4"), Chars("00:01:02"), Chars("00-01-02,345"),
     Chars("12:34:56;789"), Chars("00:01:02,"), Chars("0:00:07,5 s")}

TimeGivens ==
    [shape : {"time"}, hours : TimeHours, minutes : TimeMinutes, seconds : TimeSeconds,
     sep : TimeSeparators, fraction : TimeFractions, raw : {<<>>}]
    \cup
    [shape : {"raw"}, hours : {<<>>}, minutes : {<<>>}, seconds : {<<>>},
     sep : {","}, fraction : {<<>>}, raw : RawTimes]

ComposeTime(g) ==
    IF g.shape = "raw" THEN g.raw
    ELSE g.hours \o <<":">> \o g.minutes \o <<":">> \o g.seconds \o <<g.sep>> \o g.fraction

TimeInit ==
    /\ pc = "parseSRTTime"
    /\ given \in TimeGivens
    /\ timeStr = ComposeTime(given)
    /\ ret = <<>>
    /\ srtContent = <<>> /\ subtitles = <<>> /\ validatedSubtitles = <<>>
    /\ assContent = <<>> /\ result = NoResult /\ text = <<>>
    /\ PageAtRest

ParseSRTTimeCall ==
    /\ pc = "parseSRTTime"
    /\ ret' = parseSRTTime(timeStr)
    /\ pc' = "returned"
    /\ UNCHANGED <<srtContent, subtitles, validatedSubtitles, assContent, result,
                   timeStr, text, given>>
    /\ UNCHANGED pageVars

NextTime == ParseSRTTimeCall

SpecTime == TimeInit /\ [][NextTime]_vars

\* given is a time string of the accepted shape with its fields in range
TimeGivenValid ==
    /\ given.shape = "time"
    /\ Len(given.fraction) \in 1..3
    /\ DecimalValue(given.minutes) < 60
    /\ DecimalValue(given.seconds) < 60

\* The milliseconds a fraction of 1 to 3 digits stands for.
FractionMillis(f) ==
    DecimalValue(f) * (IF Len(f) = 1 THEN 100 ELSE IF Len(f) = 2 THEN 10 ELSE 1)

\* C5: for a valid H:MM:SS,f with 1 to 3 digits f, parseSRTTime returns
\* H:MM:SS.cc with H the hours without leading zero, MM and SS as given and
\* cc = floor(m / 10) in two digits, m in 0..999 the milliseconds f stands
\* for: the value is truncated and nothing carries into the seconds.
C5_TimeTruncated ==
    (pc = "returned" /\ TimeGivenValid) =>
        LET m  == FractionMillis(given.fraction)
            cc == m \div 10
        IN  /\ m \in 0..999
            /\ cc * 10 <= m /\ m < cc * 10 + 10
            /\ ret = NatToString(DecimalValue(given.hours)) \o <<":">>
                       \o given.minutes \o <<":">> \o given.seconds \o <<".">>
                       \o <<DigitChars[(cc \div 10) + 1], DigitChars[(cc % 10) + 1]>>

\* C5 witness: 00:59:59,999 was converted, to 0:59:59.99.
C5_Witness ==
    /\ pc = "returned"
    /\ timeStr = Chars("00:59:59,999")
    /\ ret = Chars("0:59:59.99")

\* C6: a string that is no timestamp of the accepted shape, or whose minutes
\* or seconds are 60 or more, is turned into the sentinel 0:00:00.00.
C6_MalformedGivesSentinel ==
    (pc = "returned" /\ ~TimeGivenValid) => ret = TimeSentinel

(***************************************************************************)
(* SpecText: cleanAndFormatText applied to one cue text                    *)
(***************************************************************************)
\* The most lines of the cue texts tried.
MaxCueLines == 2

\* Lines without markup, entity or corrupted letter.
PlainLines == {Chars("Hello"), Chars("World"), Chars("Xin ch") \o <<"U00E0">> \o Chars("o!")}

CueLinePool ==
    PlainLines \cup
    {Chars("<i>Hi</i>"), Chars("say <i>no</i> now"), Chars("A<br>B"),
     Chars("<b>Bold</b>"), Chars("Tom &amp; Jerry"), Chars("<u></u>"),
     Chars("c") \o <<"U0102", "U00A1">> \o Chars("m")}

CueLineSeqs == UNION {[1..n -> CueLinePool] : n \in 1..MaxCueLines}

TextGivens == [shape : {"cue"}, lines : CueLineSeqs, wrap : {"none", "i"}]

ComposeText(g) ==
    IF g.wrap = "i" THEN Chars("<i>") \o Join(g.lines, <<"\n">>) \o Chars("</i>")
    ELSE Join(g.lines, <<"\n">>)

TextInit ==
    /\ pc = "cleanAndFormatText"
    /\ given \in TextGivens
    /\ text = ComposeText(given)
    /\ ret = <<>>
    /\ srtContent = <<>> /\ subtitles = <<>> /\ validatedSubtitles = <<>>
    /\ assContent = <<>> /\ result = NoResult /\ timeStr = <<>>
    /\ PageAtRest

CleanAndFormatTextCall ==
    /\ pc = "cleanAndFormatText"
    /\ ret' = cleanAndFormatText(text)
    /\ pc' = "returned"
    /\ UNCHANGED <<srtContent, subtitles, validatedSubtitles, assContent, result,
                   timeStr, text, given>>
    /\ UNCHANGED pageVars

NextText == CleanAndFormatTextCall

SpecText == TextInit /\ [][NextText]_vars

\* C4: a cue text wrapped as a whole in one <i>...</i> pair, of one line or
\* of several, gets style Italic and as cleaned text its lines without the
\* tags, joined by the break marker \N.
C4_WholeItalicCue ==
    (/\ pc = "returned"
     /\ given.wrap = "i"
     /\ \A k \in 1..Len(given.lines) : given.lines[k] \in PlainLines)
    => /\ ret.style = "Italic"
       /\ ret.cleanedText = Join(given.lines, BreakMarker)

\* Lines wrapped as a whole in an italic pair, and lines of which only a
\* part is inside one.
WrappedLines == {Chars("<i>Hi</i>")}
PartlyItalicLines == {Chars("say <i>no</i> now")}

\* s holds an opening or a closing italic tag.
HasItalicTag(s) ==
    \E i \in 1..Len(s) :
        StartsWithAtNoCase(s, i, Chars("<i>")) \/ StartsWithAtNoCase(s, i, Chars("</i>"))

\* C17: the style is Italic exactly when the italic tag wraps the whole cue
\* (one pair around the cue, or a pair around every one of its lines); a cue
\* of which only a part is inside <i>...</i> gets Default; in both cases no
\* <i> or </i> is left in the cleaned text.
C17_ItalicExactlyWhenWhole ==
    (/\ pc = "returned"
     /\ \/ /\ given.wrap = "i"
           /\ \A k \in 1..Len(given.lines) : given.lines[k] \in PlainLines
        \/ /\ given.wrap = "none"
           /\ \A k \in 1..Len(given.lines) :
                 given.lines[k] \in PlainLines \cup WrappedLines \cup PartlyItalicLines)
    => /\ ret.style = "Italic"
          <=> \/ given.wrap = "i"
              \/ \A k \in 1..Len(given.lines) : given.lines[k] \in WrappedLines
       /\ ret.style \in {"Italic", "Default"}
       /\ ~HasItalicTag(ret.cleanedText)

(***************************************************************************)
(* SpecFix: fixEncodingArtifacts applied to a text, then to its result, as *)
(* POST applies it to the document and cleanAndFormatText to the cue text  *)
(***************************************************************************)
\* The longest correct text tried.
MaxFixLen == 3

\* Correct characters: A-breve, a-acute, a right guillemet, n, a space,
\* a-dot-below, A-diaeresis.
CorrectChars == {"U0102", "U00E1", "U00BB", "n", " ", "U1EA1", "U00C4"}

CorrectTexts == UNION {[1..n -> CorrectChars] : n \in 1..MaxFixLen}

\* The corrupted sequences the table knows.
CorruptedTexts == {encodingFixesLiteral[k][1] : k \in 1..Len(encodingFixesLiteral)}

FixGivens ==
    [shape : {"correct"}, chars : CorrectTexts] \cup [shape : {"key"}, chars : CorruptedTexts]

FixInit ==
    /\ pc = "fixEncodingArtifacts"
    /\ given \in FixGivens
    /\ text = given.chars
    /\ ret = <<>>
    /\ srtContent = <<>> /\ subtitles = <<>> /\ validatedSubtitles = <<>>
    /\ assContent = <<>> /\ result = NoResult /\ timeStr = <<>>
    /\ PageAtRest

\* ret lists the results of the passes made so far.
FixEncodingArtifactsCall ==
    /\ pc = "fixEncodingArtifacts"
    /\ Len(ret) < 2
    /\ ret' = Append(ret, fixEncodingArtifacts(IF Len(ret) = 0 THEN text ELSE ret[Len(ret)]))
    /\ pc' = IF Len(ret) = 1 THEN "returned" ELSE pc
    /\ UNCHANGED <<srtContent, subtitles, validatedSubtitles, assContent, result,
                   timeStr, text, given>>
    /\ UNCHANGED pageVars

NextFix == FixEncodingArtifactsCall

SpecFix == FixInit /\ [][NextFix]_vars

\* C9: a text that is correct already comes out of fixEncodingArtifacts
\* unchanged, after one pass and after two.
C9_CorrectTextUnchanged ==
    (given.shape = "correct") => \A k \in 1..Len(ret) : ret[k] = text

\* key a is a strict prefix of key b
StrictPrefix(a, b) == Len(a) < Len(b) /\ SubSeq(b, 1, Len(a)) = a

\* C14: in the order the table is applied in, no key is a strict prefix of
\* a key applied after it; no key is written twice in the table with
\* different replacements; and for every key K written in the table with
\* letter L, fixEncodingArtifacts(K) = L.
C14_TableOrderSound ==
    /\ \A i, j \in 1..Len(encodingFixes) :
           i < j => ~StrictPrefix(encodingFixes[i][1], encodingFixes[j][1])
    /\ \A i, j \in 1..Len(encodingFixesLiteral) :
           encodingFixesLiteral[i][1] = encodingFixesLiteral[j][1]
               => encodingFixesLiteral[i][2] = encodingFixesLiteral[j][2]
    /\ (given.shape = "key" /\ Len(ret) >= 1)
       => \A k \in 1..Len(encodingFixesLiteral) :
              encodingFixesLiteral[k][1] = given.chars
                  => ret[1] = encodingFixesLiteral[k][2]

(***************************************************************************)
(* SpecPage: the upload page (src/app/page.tsx): its handlers and the      *)
(* callbacks of its calls of convertFile, run in any order the event loop  *)
(* allows                                                                  *)
(***************************************************************************)
\* The most calls of convertFile made, and the most File objects held at
\* one time.
MaxCalls == 2
MaxFiles == 3

\* The names of the files offered to the page.
FileNames == {"a.srt", "B.SRT", "notes.txt"}

\* name.toLowerCase().endsWith(".srt")
EndsWithSrt(name) ==
    LET c == Chars(name)
    IN  Len(c) >= 4 /\ StartsWithAtNoCase(c, Len(c) - 3, Chars(".srt"))

\* The identities of File objects no call of convertFile holds.
FreeFileIds == (1..MaxFiles) \ {calls[c].file.id : c \in 1..Len(calls)}

\* The File object of a selection: a new object, told from the earlier ones
\* by its identity.
NewFile(name) ==
    [name |-> name, id |-> CHOOSE n \in FreeFileIds : \A k \in FreeFileIds : n <= k]

\* The lists of files one drop carries.
DroppedLists ==
    {l \in UNION {[1..n -> FileNames] : n \in 1..2} : \A i, j \in 1..Len(l) : l[i] = l[j] => i = j}

\* files.find(file => file.name.toLowerCase().endsWith(".srt")): the
\* position of the first such file, 0 for undefined
FindSrt(names) ==
    IF \E k \in 1..Len(names) : EndsWithSrt(names[k])
    THEN CHOOSE k \in 1..Len(names) :
            /\ EndsWithSrt(names[k])
            /\ \A j \in 1..(k - 1) : ~EndsWithSrt(names[j])
    ELSE 0

\* The delays of the two setTimeout calls, the value below which the
\* interval callback adds to the progress, and the amounts it adds
\* (Math.random() * 15, in whole numbers).
ResultDelay == 300
FinishDelay == 500
ProgressCeiling == 90
ProgressSteps == {7, 14}
ProgressComplete == 100

\* The bodies the server answers with: the object of convertToASS, or an
\* error object, with the name of the file (POST); call is the call of
\* convertFile the object was received by.
ServerResults(c) ==
    [success : BOOLEAN, filename : {calls[c].file.name}, call : {c}]

\* The object of the catch block.
NetworkErrorResult(c) ==
    [success |-> FALSE, filename |-> calls[c].file.name, call |-> c]

\* The callback at place i of timers can be the next to run: no callback
\* set before it has a delay that is not longer.
TimerDue(i) ==
    \A j \in 1..(i - 1) : timers[j].delay > timers[i].delay

RemoveTimer(i) == SubSeq(timers, 1, i - 1) \o SubSeq(timers, i + 1, Len(timers))

PageInit ==
    /\ pc = "page"
    /\ given = [shape |-> "page"]
    /\ result = Null
    /\ srtContent = <<>> /\ subtitles = <<>> /\ validatedSubtitles = <<>>
    /\ assContent = <<>> /\ timeStr = <<>> /\ text = <<>> /\ ret = <<>>
    /\ PageAtRest

\* What no handler of the page assigns.
convertVars == <<pc, srtContent, subtitles, validatedSubtitles, assContent,
                 timeStr, text, ret, given>>

\* handleDrag, on the upload zone, which is rendered while file is null.
HandleDrag(type) ==
    /\ file = Null
    /\ dragActive' = IF type \in {"dragenter", "dragover"} THEN TRUE
                     ELSE IF type = "dragleave" THEN FALSE
                     ELSE dragActive
    /\ UNCHANGED <<file, isConverting, conversionProgress, calls, timers, result>>
    /\ UNCHANGED convertVars

\* handleDrop, on the upload zone.
HandleDrop(names) ==
    /\ file = Null
    /\ FreeFileIds # {}
    /\ dragActive' = FALSE
    /\ IF FindSrt(names) # 0
       THEN /\ file' = NewFile(names[FindSrt(names)])
            /\ result' = Null
       ELSE UNCHANGED <<file, result>>
    /\ UNCHANGED <<isConverting, conversionProgress, calls, timers>>
    /\ UNCHANGED convertVars

\* handleFileSelect, of the input of the upload zone: a file whose name does
\* not end with .srt changes nothing.
HandleFileSelect(name) ==
    /\ file = Null
    /\ FreeFileIds # {}
    /\ EndsWithSrt(name)
    /\ file' = NewFile(name)
    /\ result' = Null
    /\ UNCHANGED <<isConverting, conversionProgress, dragActive, calls, timers>>
    /\ UNCHANGED convertVars

\* convertFile up to its first await: the button is rendered while file is
\* set and is disabled while isConverting.
ConvertFile ==
    /\ file # Null
    /\ ~isConverting
    /\ Len(calls) < MaxCalls
    /\ isConverting' = TRUE
    /\ result' = Null
    /\ conversionProgress' = 0
    /\ calls' = Append(calls, [file |-> file, at |-> "fetch", progressInterval |-> TRUE])
    /\ UNCHANGED <<file, dragActive, timers>>
    /\ UNCHANGED convertVars

\* The callback of setInterval of call c, until clearInterval.
ProgressTick(c, step) ==
    /\ calls[c].progressInterval
    /\ conversionProgress' = IF conversionProgress >= ProgressCeiling
                             THEN conversionProgress
                             ELSE conversionProgress + step
    /\ UNCHANGED <<file, isConverting, dragActive, calls, timers, result>>
    /\ UNCHANGED convertVars

\* await fetch(...) of call c is fulfilled: on to await response.json()
FetchFulfilled(c) ==
    /\ calls[c].at = "fetch"
    /\ calls' = [calls EXCEPT ![c].at = "json"]
    /\ UNCHANGED <<file, isConverting, conversionProgress, dragActive, timers, result>>
    /\ UNCHANGED convertVars

\* await response.json() of call c is fulfilled with body: the rest of the
\* try block, then the finally block.
JsonFulfilled(c, body) ==
    /\ calls[c].at = "json"
    /\ conversionProgress' = ProgressComplete
    /\ timers' = timers \o <<[call |-> c, delay |-> ResultDelay, result |-> body],
                             [call |-> c, delay |-> FinishDelay, result |-> Null]>>
    /\ calls' = [calls EXCEPT ![c].at = "done"]
    /\ UNCHANGED <<file, isConverting, dragActive, result>>
    /\ UNCHANGED convertVars

\* One of the two awaits of call c is rejected: the catch block, then the
\* finally block.
CatchError(c) ==
    /\ calls[c].at \in {"fetch", "json"}
    /\ result' = NetworkErrorResult(c)
    /\ timers' = Append(timers, [call |-> c, delay |-> FinishDelay, result |-> Null])
    /\ calls' = [calls EXCEPT ![c].at = "done", ![c].progressInterval = FALSE]
    /\ UNCHANGED <<file, isConverting, conversionProgress, dragActive>>
    /\ UNCHANGED convertVars

\* The callback of setTimeout(..., 300): setResult(result) and
\* clearInterval(progressInterval)
ShowResult(i) ==
    /\ timers[i].delay = ResultDelay
    /\ TimerDue(i)
    /\ result' = timers[i].result
    /\ calls' = [calls EXCEPT ![timers[i].call].progressInterval = FALSE]
    /\ timers' = RemoveTimer(i)
    /\ UNCHANGED <<file, isConverting, conversionProgress, dragActive>>
    /\ UNCHANGED convertVars

\* The callback of setTimeout(..., 500): setIsConverting(false) and
\* setConversionProgress(0)
FinishConverting(i) ==
    /\ timers[i].delay = FinishDelay
    /\ TimerDue(i)
    /\ isConverting' = FALSE
    /\ conversionProgress' = 0
    /\ timers' = RemoveTimer(i)
    /\ UNCHANGED <<file, dragActive, calls, result>>
    /\ UNCHANGED convertVars

\* resetConverter, of the two buttons rendered while file is set.
ResetConverter ==
    /\ file # Null
    /\ file' = Null
    /\ result' = Null
    /\ isConverting' = FALSE
    /\ conversionProgress' = 0
    /\ UNCHANGED <<dragActive, calls, timers>>
    /\ UNCHANGED convertVars

NextPage ==
    \/ \E type \in {"dragenter", "dragover", "dragleave"} : HandleDrag(type)
    \/ \E names \in DroppedLists : HandleDrop(names)
    \/ \E name \in FileNames : HandleFileSelect(name)
    \/ ConvertFile
    \/ \E c \in 1..Len(calls) : \E step \in ProgressSteps : ProgressTick(c, step)
    \/ \E c \in 1..Len(calls) : FetchFulfilled(c)
    \/ \E c \in 1..Len(calls) : \E body \in ServerResults(c) : JsonFulfilled(c, body)
    \/ \E c \in 1..Len(calls) : CatchError(c)
    \/ \E i \in 1..Len(timers) : ShowResult(i)
    \/ \E i \in 1..Len(timers) : FinishConverting(i)
    \/ ResetConverter

SpecPage == PageInit /\ [][NextPage]_vars

\* The calls of convertFile whose request is under way.
InFlight == {c \in 1..Len(calls) : calls[c].at # "done"}

\* C19: whatever the order of the handlers and callbacks, at most one
\* request is under way at a time; the result shown was received by a call
\* made for the file now selected; and isConverting is set while a request
\* for the file now selected is under way.
C19_OneRequestForSelectedFile ==
    /\ Cardinality(InFlight) <= 1
    /\ result # Null => (file # Null /\ calls[result.call].file = file)
    /\ \A c \in InFlight : calls[c].file = file => isConverting

====
